---- MODULE Spec2Model ----
(***************************************************************************)
(* Debt ledger of the expense splitting backend (src/backend/app.py).      *)
(*                                                                         *)
(* Money is counted in whole cents.  The tables of the SQLite database are *)
(* the state.  balances and expense_splits are bags of rows: their id      *)
(* columns are only used to address a row that a SELECT has just returned, *)
(* so a row is modelled without it and two equal rows are two copies in    *)
(* the bag.  expenses and payments are the rows in the order of their ids. *)
(* A request handler is one action: it runs on its own connection and      *)
(* either commits everything or closes the connection without commit,      *)
(* which discards what it has written.  The model starts where the request *)
(* has been authenticated and parsed; last is the answer to the request    *)
(* being served, and the server returns it before it takes the next one.   *)
(* members is the bag of the active membership rows (user, group), groups  *)
(* the rows of the groups table in the order of their ids.                 *)
(* inflight holds the requests that worker threads are serving side by     *)
(* side, each on its own connection; it is used where requests overlap.    *)
(***************************************************************************)
EXTENDS Bags, FiniteSets, Integers, Sequences, TLC

VARIABLES balances, expenses, expense_splits, payments, members, groups, last,
          inflight

vars == <<balances, expenses, expense_splits, payments, members, groups, last, inflight>>

(* ---------------------------------------------------------------- bounds *)
MaxAmount == 1
MaxParticipants == 2
MaxExpenses == 2
MaxPayments == 2

(* ------------------------------------------------------------- constants *)
\* abs(total_split - amount) > 0.01 : one cent
Tolerance == 1

Users == {1, 2, 3}
Groups == {1, 2}

AmountInputs == 0..MaxAmount
PaymentInputs == 0..(MaxAmount + 1)
ShareInputs == (0 - MaxAmount)..MaxAmount
SplitMethods == {"equal", "custom", "weekly"}
ParticipantLists == UNION {[1..n -> Users] : n \in 0..MaxParticipants}
SplitDetailsInputs ==
    UNION {[K -> ShareInputs] :
             K \in {S \in SUBSET Users : Cardinality(S) \in 1..MaxParticipants}}

Abs(x) == IF x < 0 THEN 0 - x ELSE x

RECURSIVE SumValues(_)
SumValues(d) ==
    IF DOMAIN d = {} THEN 0
    ELSE LET k == CHOOSE x \in DOMAIN d : TRUE
         IN d[k] + SumValues([x \in (DOMAIN d) \ {k} |-> d[x]])

Range(s) == {s[i] : i \in DOMAIN s}

RECURSIVE SeqToBag(_)
SeqToBag(s) == IF s = << >> THEN EmptyBag ELSE SetToBag({Head(s)}) (+) SeqToBag(Tail(s))

(* ----------------------------------------------------------------- rows *)
BalanceRow(g, l, b, a) == [group_id |-> g, lender |-> l, borrower |-> b, amount |-> a]

\* SELECT ... FROM balances WHERE group_id = ? AND lender = ? AND borrower = ?
SelectBalances(bal, g, l, b) ==
    {r \in BagToSet(bal) : r.group_id = g /\ r.lender = l /\ r.borrower = b}

InsertBalance(bal, r) == bal (+) SetToBag({r})
DeleteBalance(bal, r) == bal (-) SetToBag({r})
UpdateBalance(bal, r, a) == InsertBalance(DeleteBalance(bal, r), [r EXCEPT !.amount = a])

\* SELECT 1 FROM members WHERE user_id = ? AND group_id = ? AND deleted_at IS NULL
IsMember(mem, u, g) == BagIn(<<u, g>>, mem)

(* ------------------------------------------------- consolidate_balances *)
\* variant: every call inserts a row, whatever the pair already has
consolidate_balances_insert_only(bal, group_id, lender_id, borrower_id, amount) ==
    {InsertBalance(bal, BalanceRow(group_id, lender_id, borrower_id, amount))}

\* variant: a row that reaches zero is kept (new_amount < 0 instead of <= 0)
consolidate_balances_keep_zero(bal, group_id, lender_id, borrower_id, amount) ==
    LET same == SelectBalances(bal, group_id, lender_id, borrower_id)
        opposite == SelectBalances(bal, group_id, borrower_id, lender_id)
    IN  IF same # {}
        THEN {IF r.amount + amount < 0
              THEN DeleteBalance(bal, r)
              ELSE UpdateBalance(bal, r, r.amount + amount) : r \in same}
        ELSE IF opposite # {}
        THEN {IF amount >= r.amount
              THEN IF amount - r.amount > 0
                   THEN InsertBalance(DeleteBalance(bal, r),
                            BalanceRow(group_id, lender_id, borrower_id, amount - r.amount))
                   ELSE DeleteBalance(bal, r)
              ELSE UpdateBalance(bal, r, r.amount - amount) : r \in opposite}
        ELSE {InsertBalance(bal, BalanceRow(group_id, lender_id, borrower_id, amount))}

\* variant: the same-direction update subtracts the amount instead of adding it
consolidate_balances_subtract(bal, group_id, lender_id, borrower_id, amount) ==
    LET same == SelectBalances(bal, group_id, lender_id, borrower_id)
        opposite == SelectBalances(bal, group_id, borrower_id, lender_id)
    IN  IF same # {}
        THEN {IF r.amount - amount <= 0
              THEN DeleteBalance(bal, r)
              ELSE UpdateBalance(bal, r, r.amount - amount) : r \in same}
        ELSE IF opposite # {}
        THEN {IF amount >= r.amount
              THEN IF amount - r.amount > 0
                   THEN InsertBalance(DeleteBalance(bal, r),
                            BalanceRow(group_id, lender_id, borrower_id, amount - r.amount))
                   ELSE DeleteBalance(bal, r)
              ELSE UpdateBalance(bal, r, r.amount - amount) : r \in opposite}
        ELSE {InsertBalance(bal, BalanceRow(group_id, lender_id, borrower_id, amount))}

\* variant: an opposite row that is exceeded is deleted and the rest is dropped
consolidate_balances_no_flip(bal, group_id, lender_id, borrower_id, amount) ==
    LET same == SelectBalances(bal, group_id, lender_id, borrower_id)
        opposite == SelectBalances(bal, group_id, borrower_id, lender_id)
    IN  IF same # {}
        THEN {IF r.amount + amount <= 0
              THEN DeleteBalance(bal, r)
              ELSE UpdateBalance(bal, r, r.amount + amount) : r \in same}
        ELSE IF opposite # {}
        THEN {IF amount >= r.amount
              THEN DeleteBalance(bal, r)
              ELSE UpdateBalance(bal, r, r.amount - amount) : r \in opposite}
        ELSE {InsertBalance(bal, BalanceRow(group_id, lender_id, borrower_id, amount))}

\* The stores consolidate_balances can leave behind.  fetchone() returns one
\* of the matching rows; with a single matching row the result is unique.
consolidate_balances(bal, group_id, lender_id, borrower_id, amount) ==
    LET existing_lender_to_borrower == SelectBalances(bal, group_id, lender_id, borrower_id)
        existing_borrower_to_lender == SelectBalances(bal, group_id, borrower_id, lender_id)
    IN  IF existing_lender_to_borrower # {}
        THEN {LET new_amount == r.amount + amount
              IN  IF new_amount <= 0
                  THEN DeleteBalance(bal, r)
                  ELSE UpdateBalance(bal, r, new_amount)
              : r \in existing_lender_to_borrower}
        ELSE IF existing_borrower_to_lender # {}
        THEN {LET existing_amount == r.amount
              IN  IF amount >= existing_amount
                  THEN LET new_amount == amount - existing_amount
                       IN  IF new_amount > 0
                           THEN InsertBalance(DeleteBalance(bal, r),
                                    BalanceRow(group_id, lender_id, borrower_id, new_amount))
                           ELSE DeleteBalance(bal, r)
                  ELSE UpdateBalance(bal, r, existing_amount - amount)
              : r \in existing_borrower_to_lender}
        ELSE {InsertBalance(bal, BalanceRow(group_id, lender_id, borrower_id, amount))}

\* datetime.now(): later than the timestamp of every row stored so far
Now(exp, pay) == Len(exp) + Len(pay) + 1

(* -------------------------------------------------------------- requests *)
\* What the last request was and how it was answered: the HTTP status, the
\* error of a 4xx answer, and the number of consolidate_balances calls made.
Response(op, status, error, g, l, b, a, n) ==
    [op |-> op, status |-> status, error |-> error, group_id |-> g, lender |-> l,
     borrower |-> b, amount |-> a, consolidations |-> n]

NoResponse == Response("none", 0, "", 0, 0, 0, 0, 0)

\* an early return, or a connection closed without commit
Reject(op, status, error, g, l, b, a) ==
    /\ last' = Response(op, status, error, g, l, b, a, 0)
    /\ UNCHANGED <<balances, expenses, expense_splits, payments, members, groups, inflight>>

(* -------------------------------------------------------- record_payment *)
PaymentRow(paid_by, paid_to, amount, paid_at, g) ==
    [paid_by |-> paid_by, paid_to |-> paid_to, amount |-> amount, paid_at |-> paid_at,
     group_id |-> g]

\* variant: the query looks for the row with lender and borrower swapped
DebtRows_swapped(bal, g, paid_by, paid_to) == SelectBalances(bal, g, paid_by, paid_to)

\* variant: the comparison is inverted
ExceedsDebt_inverted(amount, existing_debt) == amount < existing_debt

\* the balance_check query: what paid_by owes paid_to
DebtRows(bal, g, paid_by, paid_to) == SelectBalances(bal, g, paid_to, paid_by)

ExceedsDebt(amount, existing_debt) == amount > existing_debt

record_payment ==
    /\ last = NoResponse
    /\ \E amount \in PaymentInputs, paid_by \in Users, paid_to \in Users,
              group_id \in Groups, description \in {"", "settle up"} :
      IF amount <= 0
      THEN Reject("record_payment", 400, "amount", group_id, paid_to, paid_by, amount)
      ELSE IF description = ""
      THEN Reject("record_payment", 400, "description", group_id, paid_to, paid_by, amount)
      ELSE IF paid_by = paid_to
      THEN Reject("record_payment", 400, "self", group_id, paid_to, paid_by, amount)
      ELSE IF ~IsMember(members, paid_by, group_id) \/ ~IsMember(members, paid_to, group_id)
      THEN Reject("record_payment", 403, "members", group_id, paid_to, paid_by, amount)
      ELSE LET rows == DebtRows(balances, group_id, paid_by, paid_to)
           IN  IF rows = {}
               THEN Reject("record_payment", 400, "no_debt", group_id, paid_to, paid_by, amount)
               ELSE \E balance_check \in rows :
                 IF balance_check.amount <= 0
                 THEN Reject("record_payment", 400, "no_debt", group_id, paid_to, paid_by, amount)
                 ELSE LET existing_debt == balance_check.amount
                      IN  IF ExceedsDebt(amount, existing_debt)
                          THEN Reject("record_payment", 400, "exceeds_debt",
                                      group_id, paid_to, paid_by, amount)
                          ELSE /\ Len(payments) < MaxPayments
                               /\ payments' = Append(payments,
                                                PaymentRow(paid_by, paid_to, amount,
                                                           Now(expenses, payments),
                                                           group_id))
                               /\ balances' \in consolidate_balances(balances, group_id,
                                                    paid_to, paid_by, 0 - amount)
                               /\ last' = Response("record_payment", 201, "", group_id,
                                                   paid_to, paid_by, amount, 1)
                               /\ UNCHANGED <<expenses, expense_splits, members, groups, inflight>>

(* ------------------------------------------------ compute_custom_splits *)
\* splitting.py: shares in cents for a split_config, or a SplitError.
ConfigUsers(cfg) == {cfg[i].user_id : i \in DOMAIN cfg}
OfType(cfg, t) == {i \in DOMAIN cfg : cfg[i].type = t}

RECURSIVE SumOver(_, _)
SumOver(f, S) ==
    IF S = {} THEN 0
    ELSE LET k == CHOOSE x \in S : TRUE IN f[k] + SumOver(f, S \ {k})

PercentShare(total, pct) == (total * pct) \div 100

SplitFailure(e) == [ok |-> FALSE, error |-> e, shares |-> << >>]

\* variant: the leftover units go to the members listed first
RemainderRank_listing_order(cfg, remainder, i) == Cardinality({j \in remainder : j < i})

\* the number of Remainder members that come before member i in ascending id order
RemainderRank(cfg, remainder, i) ==
    Cardinality({j \in remainder : cfg[j].user_id < cfg[i].user_id})

\* variant: the leftover units are not handed out
RemainderShare_drops_leftover(remaining, count, rank) == remaining \div count

\* the even share of a Remainder member, one unit more for the first
\* remaining % count of them
RemainderShare(remaining, count, rank) ==
    (remaining \div count) + (IF rank < remaining % count THEN 1 ELSE 0)

\* variant: a configuration without a Remainder member always fails
NoRemainderTarget_without_remainder(count, remaining) == count = 0

NoRemainderTarget(count, remaining) == count = 0 /\ remaining # 0

compute_custom_splits(total, cfg) ==
    LET fixed == OfType(cfg, "amount")
        percent == OfType(cfg, "percent")
        remainder == OfType(cfg, "none")
        provisional == [i \in DOMAIN cfg |->
                          IF i \in fixed THEN cfg[i].value
                          ELSE IF i \in percent THEN PercentShare(total, cfg[i].value)
                          ELSE 0]
        fixed_sum == SumOver(provisional, fixed)
        percent_sum == SumOver(provisional, percent)
        remaining == total - fixed_sum - percent_sum
        count == Cardinality(remainder)
        share(i) == IF i \in remainder
                    THEN RemainderShare(remaining, count, RemainderRank(cfg, remainder, i))
                    ELSE provisional[i]
    IN  IF cfg = << >> \/ Cardinality(ConfigUsers(cfg)) # Len(cfg)
        THEN SplitFailure("InvalidParticipant")
        ELSE IF \E i \in fixed \cup percent : cfg[i].value < 0
        THEN SplitFailure("NegativeValue")
        ELSE IF SumOver([i \in DOMAIN cfg |-> cfg[i].value], percent) > 100
        THEN SplitFailure("OverAllocated")
        ELSE IF fixed_sum > total \/ fixed_sum + percent_sum > total
        THEN SplitFailure("OverAllocated")
        ELSE IF NoRemainderTarget(count, remaining)
        THEN SplitFailure("NoRemainderTarget")
        ELSE [ok |-> TRUE, error |-> "",
              shares |-> [i \in DOMAIN cfg |->
                            [user_id |-> cfg[i].user_id, amount_cents |-> share(i)]]]

(* ----------------------------------------------------------- add_expense *)
ExpenseRow(id, g, amount, paid_by, created_at) ==
    [expense_id |-> id, group_id |-> g, amount |-> amount, paid_by |-> paid_by,
     created_at |-> created_at]

SplitRow(id, u, amount, status) ==
    [expense_id |-> id, user_id |-> u, amount |-> amount, status |-> status]

\* {str(r['user_id']): r['amount_cents'] / 100.0 for r in split_results}
ResultDetails(r) ==
    [u \in {r[i].user_id : i \in DOMAIN r} |->
        r[CHOOSE i \in DOMAIN r : r[i].user_id = u /\ \A j \in DOMAIN r :
                                     r[j].user_id = u => j <= i].amount_cents]

\* split_details.get(str(participant_id), 0)
ShareOf(split_details, participant_id) ==
    IF participant_id \in DOMAIN split_details THEN split_details[participant_id] ELSE 0

\* variant: every share becomes a new row, without consolidation
RECURSIVE ApplyParticipants_insert_directly(_, _, _, _, _)
ApplyParticipants_insert_directly(bal, g, paid_by, participants, split_details) ==
    IF participants = << >> THEN {bal}
    ELSE LET participant_id == Head(participants)
             after == IF participant_id # paid_by
                      THEN InsertBalance(bal, BalanceRow(g, paid_by, participant_id,
                                                ShareOf(split_details, participant_id)))
                      ELSE bal
         IN  ApplyParticipants_insert_directly(after, g, paid_by, Tail(participants),
                                               split_details)

\* the loop over participants: the stores it can leave behind
RECURSIVE ApplyParticipants(_, _, _, _, _)
ApplyParticipants(bal, g, paid_by, participants, split_details) ==
    IF participants = << >> THEN {bal}
    ELSE LET participant_id == Head(participants)
             share_amount == ShareOf(split_details, participant_id)
             after == IF participant_id # paid_by
                      THEN consolidate_balances(bal, g, paid_by, participant_id, share_amount)
                      ELSE {bal}
         IN  UNION {ApplyParticipants(b, g, paid_by, Tail(participants), split_details)
                      : b \in after}

\* split_rows, the payer's row appended when the payer is no participant
SplitRows(id, paid_by, participants, split_details) ==
    [i \in DOMAIN participants |->
        SplitRow(id, participants[i], ShareOf(split_details, participants[i]),
                 IF participants[i] = paid_by THEN "payer" ELSE "owes")]
    \o (IF paid_by \notin Range(participants)
        THEN <<SplitRow(id, paid_by, 0, "payer")>> ELSE << >>)

\* variant: the split rows of earlier expenses are deleted before the insert
StoreExpense_replaces_splits(g, paid_by, amount, participants, split_details) ==
    \E attachment \in {"none", "unsupported"} :
      IF attachment = "unsupported"
      THEN Reject("add_expense", 400, "attachment", 0, 0, 0, 0)
      ELSE LET expense_id == Len(expenses) + 1
           IN  /\ Len(expenses) < MaxExpenses
               /\ expenses' = Append(expenses,
                                ExpenseRow(expense_id, g, amount, paid_by,
                                           Now(expenses, payments)))
               /\ expense_splits' =
                     SeqToBag(SplitRows(expense_id, paid_by, participants, split_details))
               /\ balances' \in ApplyParticipants(balances, g, paid_by, participants,
                                                  split_details)
               /\ last' = Response("add_expense", 201, "", g, paid_by, 0, amount,
                             Cardinality({i \in DOMAIN participants : participants[i] # paid_by}))
               /\ UNCHANGED <<payments, members, groups, inflight>>

\* lines 1185-1268: the inserts, the attachment and the commit
StoreExpense(g, paid_by, amount, participants, split_details) ==
    \E attachment \in {"none", "unsupported"} :
      IF attachment = "unsupported"
      THEN Reject("add_expense", 400, "attachment", 0, 0, 0, 0)
      ELSE LET expense_id == Len(expenses) + 1
           IN  /\ Len(expenses) < MaxExpenses
               /\ expenses' = Append(expenses,
                                ExpenseRow(expense_id, g, amount, paid_by,
                                           Now(expenses, payments)))
               /\ expense_splits' = expense_splits
                     (+) SeqToBag(SplitRows(expense_id, paid_by, participants, split_details))
               /\ balances' \in ApplyParticipants(balances, g, paid_by, participants,
                                                  split_details)
               /\ last' = Response("add_expense", 201, "", g, paid_by, 0, amount,
                             Cardinality({i \in DOMAIN participants : participants[i] # paid_by}))
               /\ UNCHANGED <<payments, members, groups, inflight>>

ConfigEntries ==
    {[user_id |-> u, type |-> k[1], value |-> k[2]] :
        u \in Users,
        k \in {<<"amount", MaxAmount>>, <<"percent", 50>>, <<"none", 0>>, <<"ratio", 1>>}}
SplitConfigInputs == UNION {[1..n -> ConfigEntries] : n \in 0..MaxParticipants}

\* lines 1128-1170: the split_config of a 'custom' request is checked and
\* turned into split_details, or the request is refused with an error
CheckCustomSplit(amount, split_config) ==
    IF split_config = << >>
    THEN [error |-> "split_config", split_details |-> << >>]
    ELSE IF \E i \in DOMAIN split_config :
               split_config[i].type \notin {"amount", "percent", "none"}
    THEN [error |-> "split_type", split_details |-> << >>]
    ELSE LET total_cents == amount
             split_results == compute_custom_splits(total_cents, split_config)
         IN  IF ~split_results.ok
             THEN [error |-> split_results.error, split_details |-> << >>]
             ELSE [error |-> "", split_details |-> ResultDetails(split_results.shares)]

\* lines 1172-1183: the split_details of any other request are checked
CheckSplitDetails(amount, participants_len, split_details) ==
    IF Cardinality(DOMAIN split_details) # participants_len
    THEN [error |-> "split_details", split_details |-> << >>]
    ELSE LET total_split == SumValues(split_details)
         IN  IF Abs(total_split - amount) > Tolerance
             THEN [error |-> "split_sum", split_details |-> << >>]
             ELSE [error |-> "", split_details |-> split_details]

\* what the checks make of every split_config and of every split_details a
\* request can carry; requests with the same outcome are served alike
CustomSplitOutcomes ==
    [amount \in AmountInputs |->
        {CheckCustomSplit(amount, split_config) : split_config \in SplitConfigInputs}]
SplitDetailsOutcomes ==
    [amount \in AmountInputs |->
        [n \in 0..MaxParticipants |->
            {CheckSplitDetails(amount, n, split_details)
               : split_details \in SplitDetailsInputs}]]

add_expense ==
    /\ last = NoResponse
    /\ \E amount \in AmountInputs, group_id \in Groups, paid_by \in Users,
              split_method \in SplitMethods, participants \in ParticipantLists :
      IF participants = << >>
      THEN Reject("add_expense", 400, "participants", 0, 0, 0, 0)
      ELSE IF amount <= 0
      THEN Reject("add_expense", 400, "amount", 0, 0, 0, 0)
      ELSE IF split_method \notin {"equal", "percentage", "exact", "custom"}
      THEN Reject("add_expense", 400, "split_method", 0, 0, 0, 0)
      ELSE
        \* the caller's membership decides only between the 403 and the rest
        \/ /\ \E user_id \in Users : ~IsMember(members, user_id, group_id)
           /\ Reject("add_expense", 403, "membership", 0, 0, 0, 0)
        \/ /\ \E user_id \in Users : IsMember(members, user_id, group_id)
           /\ IF ~IsMember(members, paid_by, group_id)
              THEN Reject("add_expense", 400, "payer", 0, 0, 0, 0)
              ELSE IF \E i \in DOMAIN participants :
                         ~IsMember(members, participants[i], group_id)
              THEN Reject("add_expense", 400, "participant", 0, 0, 0, 0)
              ELSE IF split_method = "custom"
              THEN \E checked \in CustomSplitOutcomes[amount] :
                     IF checked.error # ""
                     THEN Reject("add_expense", 400, checked.error, 0, 0, 0, 0)
                     ELSE StoreExpense(group_id, paid_by, amount, participants,
                                       checked.split_details)
              ELSE \E checked \in SplitDetailsOutcomes[amount][Len(participants)] :
                     IF checked.error # ""
                     THEN Reject("add_expense", 400, checked.error, 0, 0, 0, 0)
                     ELSE StoreExpense(group_id, paid_by, amount, participants,
                                       checked.split_details)

(* ---------------------------------------------------- get_group_balances *)
\* WHERE b.group_id = ? AND b.amount > 0 : the rows the report is made from
ReportedRows(bal, group_id) ==
    {r \in BagToSet(bal) : r.group_id = group_id /\ r.amount > 0}

\* the sum of the amounts of the rows S of the table, a row counted once for
\* each of its copies
RECURSIVE SumRows(_, _)
SumRows(bal, S) ==
    IF S = {} THEN 0
    ELSE LET r == CHOOSE x \in S : TRUE
         IN  r.amount * bal[r] + SumRows(bal, S \ {r})

\* member_totals: owes and is_owed of every member of the group
MemberTotals(bal, mem, group_id) ==
    LET rows == ReportedRows(bal, group_id)
    IN  [member_id \in {u \in Users : IsMember(mem, u, group_id)} |->
           [owes |-> SumRows(bal, {r \in rows : r.borrower = member_id}),
            is_owed |-> SumRows(bal, {r \in rows : r.lender = member_id})]]

get_group_balances ==
    /\ last = NoResponse
    /\ \E user_id \in Users, group_id \in Groups :
         IF ~IsMember(members, user_id, group_id)
         THEN Reject("get_group_balances", 403, "membership", group_id, 0, 0, 0)
         ELSE /\ last' = [op |-> "get_group_balances", status |-> 200, error |-> "",
                          group_id |-> group_id, lender |-> 0, borrower |-> 0,
                          amount |-> 0, consolidations |-> 0,
                          members |-> MemberTotals(balances, members, group_id)]
              /\ UNCHANGED <<balances, expenses, expense_splits, payments,
                             members, groups, inflight>>

(* -------------------------------------------- create_group, join_group *)
MaxGroups == 3

\* the join codes generate_join_code can draw, one more than groups can exist
JoinCodes == 1..(MaxGroups + 1)
\* what a request can carry as join_code: 0 is a code that is not 4 characters
JoinCodeInputs == {0} \cup JoinCodes

GroupRow(id, join_code, created_by) ==
    [group_id |-> id, join_code |-> join_code, created_by |-> created_by]

\* the answer of the group handlers names the user of the token
GroupResponse(op, status, error, g, user_id) ==
    Response(op, status, error, g, 0, 0, 0, 0) @@ [user_id |-> user_id]

\* a code no groups row carries yet
generate_join_code(grp) ==
    {code \in JoinCodes : \A i \in DOMAIN grp : grp[i].join_code # code}

create_group ==
    /\ last = NoResponse
    /\ \E user_id \in Users, group_name \in {"", "trip"} :
         IF group_name = ""
         THEN /\ last' = GroupResponse("create_group", 400, "group_name", 0, user_id)
              /\ UNCHANGED <<balances, expenses, expense_splits, payments, members,
                             groups, inflight>>
         ELSE /\ Len(groups) < MaxGroups
              /\ \E join_code \in generate_join_code(groups) :
                   LET group_id == Len(groups) + 1
                   IN  /\ groups' = Append(groups, GroupRow(group_id, join_code, user_id))
                       /\ members' = members (+) SetToBag({<<user_id, group_id>>})
                       /\ last' = GroupResponse("create_group", 201, "", group_id, user_id)
              /\ UNCHANGED <<balances, expenses, expense_splits, payments, inflight>>

\* variant: the user is added without the look for an existing membership
join_group_without_check ==
    /\ last = NoResponse
    /\ \E user_id \in Users, join_code \in JoinCodeInputs :
         LET found == {i \in DOMAIN groups : groups[i].join_code = join_code}
         IN  IF join_code = 0 \/ found = {}
             THEN /\ last' = GroupResponse("join_group", 404, "join_code", 0, user_id)
                  /\ UNCHANGED <<balances, expenses, expense_splits, payments, members,
                                 groups, inflight>>
             ELSE \E i \in found :
                    /\ members' = members (+) SetToBag({<<user_id, groups[i].group_id>>})
                    /\ last' = GroupResponse("join_group", 200, "", groups[i].group_id,
                                             user_id)
                    /\ UNCHANGED <<balances, expenses, expense_splits, payments, groups,
                                   inflight>>

join_group ==
    /\ last = NoResponse
    /\ \E user_id \in Users, join_code \in JoinCodeInputs :
         IF join_code = 0
         THEN /\ last' = GroupResponse("join_group", 400, "join_code", 0, user_id)
              /\ UNCHANGED <<balances, expenses, expense_splits, payments, members,
                             groups, inflight>>
         ELSE LET found == {i \in DOMAIN groups : groups[i].join_code = join_code}
              IN  IF found = {}
                  THEN /\ last' = GroupResponse("join_group", 404, "join_code", 0, user_id)
                       /\ UNCHANGED <<balances, expenses, expense_splits, payments,
                                      members, groups, inflight>>
                  ELSE \E i \in found :
                         LET group_id == groups[i].group_id
                         IN  IF IsMember(members, user_id, group_id)
                             THEN /\ last' = GroupResponse("join_group", 409, "member",
                                                           group_id, user_id)
                                  /\ UNCHANGED <<balances, expenses, expense_splits,
                                                 payments, members, groups, inflight>>
                             ELSE /\ members' = members (+) SetToBag({<<user_id, group_id>>})
                                  /\ last' = GroupResponse("join_group", 200, "", group_id,
                                                           user_id)
                                  /\ UNCHANGED <<balances, expenses, expense_splits,
                                                 payments, groups, inflight>>

(* ------------------------------------------------------------- crud.py *)
\* crud.py works on the same database file, test.db, with functions of its
\* own that are called directly and validate nothing.

\* round(amount / len(members), 2): the nearest cent; a float that lies half
\* way between two cents goes to either, as its binary value happens to fall
RoundedShares(amount, n) ==
    {q \in {amount \div n, (amount \div n) + 1} : 2 * Abs(q * n - amount) <= n}

\* one INSERT INTO balances for every member of the group but the payer
RECURSIVE crud_expense_rows(_, _, _, _, _)
crud_expense_rows(bal, group_id, paid_by, group_members, share) ==
    IF group_members \subseteq {paid_by} THEN bal
    ELSE LET m == CHOOSE x \in group_members : x # paid_by
         IN  crud_expense_rows(InsertBalance(bal, BalanceRow(group_id, paid_by, m, share)),
                               group_id, paid_by, group_members \ {m}, share)

crud_add_expense ==
    /\ last = NoResponse
    /\ \E group_id \in Groups, amount \in AmountInputs, paid_by \in Users :
         LET group_members == {u \in Users : IsMember(members, u, group_id)}
         IN  IF group_members = {}
             THEN \* ZeroDivisionError after the INSERT: nothing is committed
                  Reject("crud_add_expense", 500, "ZeroDivisionError", group_id, paid_by,
                         0, amount)
             ELSE /\ Len(expenses) < MaxExpenses
                  /\ expenses' = Append(expenses,
                                    ExpenseRow(Len(expenses) + 1, group_id, amount, paid_by,
                                               Now(expenses, payments)))
                  /\ \E share \in RoundedShares(amount, Cardinality(group_members)) :
                        balances' = crud_expense_rows(balances, group_id, paid_by,
                                                      group_members, share)
                  /\ last' = Response("crud_add_expense", 0, "", group_id, paid_by, 0,
                                      amount, 0)
                  /\ UNCHANGED <<expense_splits, payments, members, groups, inflight>>

\* UPDATE balances SET amount = ? WHERE lender = ? AND borrower = ?
RECURSIVE crud_update_pair(_, _, _, _)
crud_update_pair(bal, lender, borrower, new_balance) ==
    LET hit == {r \in BagToSet(bal) :
                  r.lender = lender /\ r.borrower = borrower /\ r.amount # new_balance}
    IN  IF hit = {} THEN bal
        ELSE LET r == CHOOSE x \in hit : TRUE
             IN  crud_update_pair(UpdateBalance(bal, r, new_balance), lender, borrower,
                                  new_balance)

crud_record_payment ==
    /\ last = NoResponse
    /\ Len(payments) < MaxPayments
    /\ \E paid_by \in Users, paid_to \in Users, amount \in PaymentInputs :
         LET rows == {r \in BagToSet(balances) :
                        r.lender = paid_to /\ r.borrower = paid_by}
         IN  /\ payments' = Append(payments,
                                   PaymentRow(paid_by, paid_to, amount,
                                              Now(expenses, payments), 0))
             /\ IF rows = {}
                THEN balances' = balances
                ELSE \E row \in rows :
                       LET current_balance == row.amount
                           new_balance == IF current_balance - amount > 0
                                          THEN current_balance - amount ELSE 0
                       IN  balances' = crud_update_pair(balances, paid_to, paid_by,
                                                        new_balance)
             /\ last' = Response("crud_record_payment", 0, "", 0, paid_to, paid_by,
                                 amount, 0)
             /\ UNCHANGED <<expenses, expense_splits, members, groups, inflight>>

(* ---------------------------------------------------------- specification *)
\* the worker threads, each serving one request at a time on its own connection
Conns == {1, 2}

NoRequest ==
    [op |-> "none", group_id |-> 0, paid_by |-> 0, paid_to |-> 0, amount |-> 0,
     status |-> 0]

\* no request is being served
Idle ==
    [base |-> EmptyBag, since |-> 0, phase |-> [c \in Conns |-> "idle"],
     request |-> [c \in Conns |-> NoRequest]]

Init ==
    /\ balances = EmptyBag
    /\ expenses = << >>
    /\ expense_splits = EmptyBag
    /\ payments = << >>
    /\ members = SetToBag({<<1, 1>>, <<2, 1>>})
    /\ groups = <<GroupRow(1, 1, 1), GroupRow(2, 2, 1)>>
    /\ last = NoResponse
    /\ inflight = Idle

\* the response is returned to the client
respond ==
    /\ last # NoResponse
    /\ last' = NoResponse
    /\ UNCHANGED <<balances, expenses, expense_splits, payments, members, groups, inflight>>

Next == add_expense \/ record_payment \/ get_group_balances \/ respond

Spec == Init /\ [][Next]_vars

\* The handlers of app.py and the functions of crud.py on one database.  The
\* functions of crud.py store whatever they are given, so the history is
\* followed up to MaxLedgerHistory rows.
MaxLedgerHistory == 2

LedgerNext ==
    \/ (Len(expenses) + Len(payments) < MaxLedgerHistory /\ add_expense)
    \/ (Len(expenses) + Len(payments) < MaxLedgerHistory /\ record_payment)
    \/ (Len(expenses) + Len(payments) < MaxLedgerHistory /\ crud_add_expense)
    \/ (Len(expenses) + Len(payments) < MaxLedgerHistory /\ crud_record_payment)
    \/ get_group_balances
    \/ respond

SpecLedger == Init /\ [][LedgerNext]_vars

\* The functions of crud.py on a database in which users 1 and 2 have joined
\* both groups.
InitShared ==
    /\ balances = EmptyBag
    /\ expenses = << >>
    /\ expense_splits = EmptyBag
    /\ payments = << >>
    /\ members = SetToBag({<<1, 1>>, <<2, 1>>, <<1, 2>>, <<2, 2>>})
    /\ groups = <<GroupRow(1, 1, 1), GroupRow(2, 2, 1)>>
    /\ last = NoResponse
    /\ inflight = Idle

CrudNext == crud_add_expense \/ crud_record_payment \/ respond

SpecCrud == InitShared /\ [][CrudNext]_vars

\* The group handlers of app.py.
GroupsNext == create_group \/ join_group \/ respond

SpecGroups == Init /\ [][GroupsNext]_vars

(* ------------------------------------------ the consolidation on its own *)
\* consolidate_balances called directly, with the arguments its callers can
\* pass: two different users and any amount (add_expense passes a share as
\* it came in the request, record_payment passes a negated amount).
MaxDelta == 2
MaxBalance == 3
DeltaInputs == (0 - MaxDelta)..MaxDelta
EngineUsers == {1, 2}

call_consolidate_balances ==
    /\ last = NoResponse
    /\ \E group_id \in Groups, lender_id \in EngineUsers, borrower_id \in EngineUsers,
          amount \in DeltaInputs :
         /\ lender_id # borrower_id
         /\ balances' \in consolidate_balances(balances, group_id, lender_id, borrower_id,
                                               amount)
         /\ \A r \in BagToSet(balances') : Abs(r.amount) <= MaxBalance
         /\ last' = Response("consolidate_balances", 0, "", group_id, lender_id,
                             borrower_id, amount, 1)
         /\ UNCHANGED <<expenses, expense_splits, payments, members, groups, inflight>>

EngineNext == call_consolidate_balances \/ respond

SpecEngine == Init /\ [][EngineNext]_vars

(* ------------------------------------------- the split computation alone *)
\* compute_custom_splits called as add_expense calls it: a total in cents and
\* the members of a split_config, amounts in cents and percentages as given.
\* The function reads no table, so it is exercised before any expense is stored.
MaxTotal == 4
MaxMembers == 3
TotalInputs == 1..MaxTotal
MemberInputs ==
    {[user_id |-> u, type |-> k[1], value |-> k[2]] :
        u \in Users,
        k \in {<<"amount", 0 - 1>>, <<"amount", 1>>, <<"percent", 0 - 50>>,
               <<"percent", 50>>, <<"none", 0>>}}
MemberListInputs == UNION {[1..n -> MemberInputs] : n \in 0..MaxMembers}

call_compute_custom_splits ==
    /\ last = NoResponse
    /\ expenses = << >>
    /\ \E total_cents \in TotalInputs, split_members \in MemberListInputs :
         last' = [op |-> "compute_custom_splits", total |-> total_cents,
                  members |-> split_members,
                  result |-> compute_custom_splits(total_cents, split_members)]
    /\ UNCHANGED <<balances, expenses, expense_splits, payments, members, groups, inflight>>

SplitsNext == call_compute_custom_splits \/ respond

SpecSplits == Init /\ [][SplitsNext]_vars

\* the split computation next to the add_expense requests that use it
CustomExpenseNext == call_compute_custom_splits \/ add_expense \/ respond

SpecCustomExpense == Init /\ [][CustomExpenseNext]_vars

(* ------------------------------------------------ overlapping requests *)
\* Worker threads serve requests side by side, each on a connection of its
\* own.  A connection reads in autocommit mode until its first INSERT, UPDATE
\* or DELETE, which opens the write transaction; the transaction holds the
\* database's write lock until the commit, so it is one step.  add_expense
\* reads no balance before its first INSERT and is one step as a whole.
\* record_payment reads the debt first and opens its transaction afterwards:
\* it is two steps, and other requests can commit in between.
PaymentRequest(g, paid_by, paid_to, amount, status) ==
    [op |-> "record_payment", group_id |-> g, paid_by |-> paid_by, paid_to |-> paid_to,
     amount |-> amount, status |-> status]

\* the first request of a batch notes the store and the time it found
Opened ==
    IF \A d \in Conns : inflight.phase[d] = "idle"
    THEN [inflight EXCEPT !.base = balances, !.since = Now(expenses, payments)]
    ELSE inflight

\* the checks of record_payment, in the order of the code: the request is
\* refused unless balance_check is a positive debt the amount does not exceed
PaymentPasses(bal, amount, paid_by, paid_to, group_id, description, balance_check) ==
    /\ ~(amount <= 0)
    /\ description # ""
    /\ paid_by # paid_to
    /\ IsMember(members, paid_by, group_id) /\ IsMember(members, paid_to, group_id)
    /\ balance_check \in DebtRows(bal, group_id, paid_by, paid_to)
    /\ ~(balance_check.amount <= 0)
    /\ ~ExceedsDebt(amount, balance_check.amount)

\* record_payment up to the last check before the transaction.  A request
\* that is refused here has read the store once and written nothing.
record_payment_check(c) ==
    /\ inflight.phase[c] = "idle"
    /\ Len(payments) + Cardinality({d \in Conns : inflight.phase[d] = "checked"})
          < MaxPayments
    /\ \/ /\ \E amount \in PaymentInputs, paid_by \in Users, paid_to \in Users,
                  group_id \in Groups, description \in {"", "settle up"} :
                \A balance_check \in DebtRows(balances, group_id, paid_by, paid_to) :
                   ~PaymentPasses(balances, amount, paid_by, paid_to, group_id,
                                  description, balance_check)
          /\ UNCHANGED inflight
       \/ \E amount \in PaymentInputs, paid_by \in Users, paid_to \in Users,
                 group_id \in Groups, description \in {"", "settle up"} :
             \E balance_check \in DebtRows(balances, group_id, paid_by, paid_to) :
                /\ PaymentPasses(balances, amount, paid_by, paid_to, group_id,
                                 description, balance_check)
                /\ inflight' =
                     [Opened EXCEPT
                        !.phase[c] = "checked",
                        !.request[c] = PaymentRequest(group_id, paid_by, paid_to,
                                                      amount, 0)]
    /\ UNCHANGED <<balances, expenses, expense_splits, payments, members, groups, last>>

\* record_payment from the INSERT to the commit
record_payment_commit(c) ==
    /\ inflight.phase[c] = "checked"
    /\ LET q == inflight.request[c]
       IN  /\ payments' = Append(payments,
                                 PaymentRow(q.paid_by, q.paid_to, q.amount,
                                            Now(expenses, payments), q.group_id))
           /\ balances' \in consolidate_balances(balances, q.group_id, q.paid_to,
                                                  q.paid_by, 0 - q.amount)
    /\ inflight' = [inflight EXCEPT !.phase[c] = "done", !.request[c].status = 201]
    /\ UNCHANGED <<expenses, expense_splits, members, groups, last>>

\* every request of the batch has been answered
return_responses ==
    /\ \A c \in Conns : inflight.phase[c] # "checked"
    /\ \E c \in Conns : inflight.phase[c] = "done"
    /\ inflight' = Idle
    /\ UNCHANGED <<balances, expenses, expense_splits, payments, members, groups, last>>

ConcurrentNext ==
    \/ add_expense
    \/ respond
    \/ \E c \in Conns : record_payment_check(c)
    \/ \E c \in Conns : record_payment_commit(c)
    \/ return_responses

SpecConcurrent == Init /\ [][ConcurrentNext]_vars

(* ------------------------------------------------------ receipt parsing *)
\* find_total_amount_in_text is a pure function of the text.  A line is what
\* the function reads of it: its words and the numbers the pattern of
\* extract_amount_from_line finds in it, in their order.
MaxLines == 3

RECEIPT_KEYWORDS ==
    {"total amount", "grand total", "balance due", "amount due", "net total",
     "final amount", "payable amount", "total"}
EXCLUDE_KEYWORDS == {"subtotal", "sub-total", "sub total"}

\* keyword in line, for the lowered line: the keywords each wording contains
KeywordsIn(words) ==
    CASE words = "Total"       -> {"total"}
      [] words = "Grand Total" -> {"grand total", "total"}
      [] words = "Subtotal"    -> {"subtotal", "total"}
      [] words = "Sub Total"   -> {"sub total", "total"}
      [] OTHER                 -> {}

\* extract_amount_from_line finds nothing
NoAmount == 0 - 1

LineInputs ==
    {[words |-> "", numbers |-> << >>]}
    \cup [words : {"Items", "Total", "Grand Total", "Subtotal", "Sub Total"},
          numbers : {<< >>, <<1>>, <<2>>, <<0 - 1, 3>>}]
TextInputs == UNION {[1..n -> LineInputs] : n \in 0..MaxLines}

\* the first match that is not negative
RECURSIVE extract_amount_from_line(_)
extract_amount_from_line(line) ==
    IF line.numbers = << >> THEN NoAmount
    ELSE IF Head(line.numbers) >= 0 THEN Head(line.numbers)
    ELSE extract_amount_from_line([line EXCEPT !.numbers = Tail(line.numbers)])

\* [line.strip() for line in text.splitlines() if line.strip()]
RECURSIVE StrippedLines(_)
StrippedLines(text) ==
    IF text = << >> THEN << >>
    ELSE IF Head(text).words = "" /\ Head(text).numbers = << >>
    THEN StrippedLines(Tail(text))
    ELSE <<Head(text)>> \o StrippedLines(Tail(text))

\* the loop over the lines from idx on
RECURSIVE ScanLines(_, _)
ScanLines(lines, idx) ==
    IF idx > Len(lines) THEN NoAmount
    ELSE IF KeywordsIn(lines[idx].words) \cap EXCLUDE_KEYWORDS # {}
    THEN ScanLines(lines, idx + 1)
    ELSE IF KeywordsIn(lines[idx].words) \cap RECEIPT_KEYWORDS = {}
    THEN ScanLines(lines, idx + 1)
    ELSE IF extract_amount_from_line(lines[idx]) # NoAmount
    THEN extract_amount_from_line(lines[idx])
    ELSE IF idx + 1 <= Len(lines) /\ extract_amount_from_line(lines[idx + 1]) # NoAmount
    THEN extract_amount_from_line(lines[idx + 1])
    ELSE ScanLines(lines, idx + 1)

find_total_amount_in_text(text) ==
    IF text = << >> THEN NoAmount ELSE ScanLines(StrippedLines(text), 1)

call_find_total_amount_in_text ==
    /\ last = NoResponse
    /\ \E text \in TextInputs :
         last' = [op |-> "find_total_amount_in_text", text |-> text,
                  result |-> find_total_amount_in_text(text)]
    /\ UNCHANGED <<balances, expenses, expense_splits, payments, members, groups,
                   inflight>>

ReceiptNext == call_find_total_amount_in_text \/ respond

SpecReceipt == Init /\ [][ReceiptNext]_vars

(* ---------------------------------------------------------------- claims *)
RECURSIVE SumAmounts(_, _)
\* the sum of the amounts of the rows S of a table, each counted with its copies
SumAmounts(table, S) ==
    IF S = {} THEN 0
    ELSE LET r == CHOOSE x \in S : TRUE
         IN r.amount * CopiesIn(r, table) + SumAmounts(table, S \ {r})

\* the rows of a group between two users, in either direction
PairRows(bal, g, a, b) == SelectBalances(bal, g, a, b) \cup SelectBalances(bal, g, b, a)
PairRowCount(bal, g, a, b) == SumOver(bal, PairRows(bal, g, a, b))

\* what x owes y in group g, counted with its sign
Signed(bal, g, x, y) ==
    SumAmounts(bal, SelectBalances(bal, g, y, x)) - SumAmounts(bal, SelectBalances(bal, g, x, y))

Accepted(op) == last = NoResponse /\ last'.op = op /\ last'.status = 201
Requested(op) == last = NoResponse /\ last'.op = op

\* the expense_splits rows an accepted add_expense has just inserted
NewSplits == expense_splits' (-) expense_splits
NewOwes == {r \in BagToSet(NewSplits) : r.status = "owes"}

\* C1: for every group and every unordered pair of users at most one balance
\* row exists, counting both directions and counting equal rows twice.
C1_SingleEdge ==
    \A g \in Groups : \A a \in Users : \A b \in Users :
        a # b => PairRowCount(balances, g, a, b) <= 1

\* two expenses paid by different members and a payment have left one row
C1_Witness ==
    /\ Len(expenses) = 2
    /\ expenses[1].paid_by # expenses[2].paid_by
    /\ Len(payments) >= 1
    /\ PairRowCount(balances, 1, 1, 2) = 1

\* C2: every balance row that exists has a strictly positive amount.
C2_AmountsPositive == \A r \in BagToSet(balances) : r.amount > 0

\* C3: the amounts of the expense_splits rows of every stored expense sum to
\* the expense's amount exactly.
C3_SplitsSumToAmount ==
    \A i \in DOMAIN expenses :
        SumAmounts(expense_splits,
                   {r \in BagToSet(expense_splits) : r.expense_id = expenses[i].expense_id})
          = expenses[i].amount

\* C4: a record_payment request whose amount is greater than what the payer
\* owes the recipient in the group is answered with an error, and neither
\* payments nor balances change.
C4_OverpaymentRejected ==
    [][(/\ Requested("record_payment")
        /\ last'.amount > 0
        /\ last'.amount > Signed(balances, last'.group_id, last'.borrower, last'.lender))
       => (/\ last'.status # 201
           /\ payments' = payments
           /\ balances' = balances)]_vars

\* a payment above an existing positive debt has been refused
C4_Witness ==
    /\ last.op = "record_payment"
    /\ last.error = "exceeds_debt"
    /\ \E r \in SelectBalances(balances, last.group_id, last.lender, last.borrower) :
          r.amount > 0 /\ last.amount > r.amount
    /\ Len(payments) >= 1

\* C5: a record_payment request from P to R is refused, payments and balances
\* unchanged, whenever the group has no row with lender R and borrower P.
C5_NoDebtRejected ==
    [][(/\ Requested("record_payment")
        /\ SelectBalances(balances, last'.group_id, last'.lender, last'.borrower) = {})
       => (/\ last'.status # 201
           /\ payments' = payments
           /\ balances' = balances)]_vars

\* refused although the recipient owes the payer: the only row is the other way
C5_Witness ==
    /\ last.op = "record_payment"
    /\ last.error = "no_debt"
    /\ SelectBalances(balances, last.group_id, last.lender, last.borrower) = {}
    /\ \E r \in SelectBalances(balances, last.group_id, last.borrower, last.lender) :
          r.amount > 0

\* C6: an accepted payment of exactly the amount d that P owes R leaves no
\* row for the pair, in either direction.
C6_FullPaymentDeletes ==
    [][(/\ Accepted("record_payment")
        /\ BalanceRow(last'.group_id, last'.lender, last'.borrower, last'.amount)
             \in SelectBalances(balances, last'.group_id, last'.lender, last'.borrower))
       => PairRows(balances', last'.group_id, last'.lender, last'.borrower) = {}]_vars

\* a payment has been accepted and the pair has no row left
C6_Witness ==
    /\ last.op = "record_payment"
    /\ last.status = 201
    /\ PairRows(balances, last.group_id, last.lender, last.borrower) = {}

\* C7: an accepted payment of a, 0 < a < d, where P owes R the amount d,
\* appends one payments row, makes one consolidation, and changes the store
\* in nothing but the amount of the pair's row, which becomes d - a.
C7_PartialPayment ==
    [][\A r \in SelectBalances(balances, last'.group_id, last'.lender, last'.borrower) :
         (/\ Accepted("record_payment")
          /\ 0 < last'.amount
          /\ last'.amount < r.amount)
         => (/\ payments' = Append(payments,
                               PaymentRow(last'.borrower, last'.lender, last'.amount,
                                          Now(expenses, payments), last'.group_id))
             /\ last'.consolidations = 1
             /\ balances' = UpdateBalance(balances, r, r.amount - last'.amount)
             /\ UNCHANGED <<expenses, expense_splits>>)]_vars

\* a payment has been accepted and the payer still owes the recipient
C7_Witness ==
    /\ last.op = "record_payment"
    /\ last.status = 201
    /\ \E r \in SelectBalances(balances, last.group_id, last.lender, last.borrower) :
          r.amount > 0

\* C8: an accepted add_expense raises what each participant other than the
\* payer owes the payer by exactly that participant's share, when nonzero.
C8_ShareAddsToObligation ==
    [][Accepted("add_expense")
       => \A r \in NewOwes :
            r.amount # 0
            => Signed(balances', last'.group_id, r.user_id, last'.lender)
                 = Signed(balances, last'.group_id, r.user_id, last'.lender) + r.amount]_vars

\* C9: a participant whose share is zero causes no change to the rows of the
\* pair (participant, payer), and no consolidation is made for a zero share.
C9_ZeroShareNoChange ==
    [][Accepted("add_expense")
       => /\ \A r \in NewOwes :
               (\A q \in NewOwes : q.user_id = r.user_id => q.amount = 0)
               => \A x \in PairRows(balances, last'.group_id, r.user_id, last'.lender)
                         \cup PairRows(balances', last'.group_id, r.user_id, last'.lender) :
                     CopiesIn(x, balances') = CopiesIn(x, balances)
          /\ last'.consolidations
               = SumOver(NewSplits, {r \in NewOwes : r.amount # 0})]_vars

\* C10: consolidate_balances(group, lender, borrower, delta) on a pair that
\* has no row creates the row (lender, borrower, delta) when delta > 0, the
\* reverse row (borrower, lender, -delta) when delta < 0, nothing when delta = 0.
C10_NoExistingRow ==
    [][(/\ Requested("consolidate_balances")
        /\ PairRows(balances, last'.group_id, last'.lender, last'.borrower) = {})
       => balances' =
            IF last'.amount > 0
            THEN InsertBalance(balances, BalanceRow(last'.group_id, last'.lender,
                                                    last'.borrower, last'.amount))
            ELSE IF last'.amount < 0
            THEN InsertBalance(balances, BalanceRow(last'.group_id, last'.borrower,
                                                    last'.lender, 0 - last'.amount))
            ELSE balances]_vars

\* C11: consolidate_balances on a pair whose row of amount e > 0 is in the
\* requested direction, n = e + delta: n > 0 updates the row to n, n = 0
\* deletes it, n < 0 deletes it and leaves the opposite row of amount -n.
C11_SameDirection ==
    [][\A r \in SelectBalances(balances, last'.group_id, last'.lender, last'.borrower) :
         (Requested("consolidate_balances") /\ r.amount > 0)
         => LET n == r.amount + last'.amount
            IN  balances' =
                  IF n > 0 THEN UpdateBalance(balances, r, n)
                  ELSE IF n = 0 THEN DeleteBalance(balances, r)
                  ELSE InsertBalance(DeleteBalance(balances, r),
                           BalanceRow(last'.group_id, last'.borrower, last'.lender,
                                      0 - n))]_vars

\* C12: consolidate_balances on a pair whose only row, of amount e, is in the
\* opposite direction: delta < e leaves the row with e - delta, delta = e
\* deletes it, delta > e replaces it by the single row delta - e in the
\* requested direction.
C12_OppositeDirection ==
    [][\A r \in SelectBalances(balances, last'.group_id, last'.borrower, last'.lender) :
         (/\ Requested("consolidate_balances")
          /\ PairRowCount(balances, last'.group_id, last'.lender, last'.borrower) = 1)
         => LET e == r.amount
                delta == last'.amount
            IN  /\ balances' =
                     IF delta < e THEN UpdateBalance(balances, r, e - delta)
                     ELSE IF delta = e THEN DeleteBalance(balances, r)
                     ELSE InsertBalance(DeleteBalance(balances, r),
                              BalanceRow(last'.group_id, last'.lender, last'.borrower,
                                         delta - e))
                /\ delta > e
                   => PairRows(balances', last'.group_id, last'.lender, last'.borrower)
                        = {BalanceRow(last'.group_id, last'.lender, last'.borrower,
                                      delta - e)}]_vars

\* a call has flipped the pair: the row left in the requested direction is
\* smaller than the positive amount of the call
C12_Witness ==
    /\ last.op = "consolidate_balances"
    /\ last.amount > 0
    /\ \E r \in SelectBalances(balances, last.group_id, last.lender, last.borrower) :
          0 < r.amount /\ r.amount < last.amount
    /\ C2_AmountsPositive

\* the rows of a table that belong to a group
GroupBalances(bal, g) == [r \in {x \in BagToSet(bal) : x.group_id = g} |-> bal[r]]

\* the stored "owes" rows of an expense applied to each of the stores; rows of
\* different participants touch different pairs, and the rows of one
\* participant carry the same amount, so their order makes no difference
RECURSIVE ReplaySplits(_, _, _, _)
ReplaySplits(stores, g, paid_by, rows) ==
    IF rows = EmptyBag THEN stores
    ELSE LET r == CHOOSE x \in BagToSet(rows) : TRUE
         IN  ReplaySplits(UNION {consolidate_balances(b, g, paid_by, r.user_id, r.amount)
                                   : b \in stores},
                          g, paid_by, rows (-) SetToBag({r}))

\* the history of group g from time t on, applied to each of the stores
RECURSIVE Replay(_, _, _)
Replay(stores, g, t) ==
    IF t >= Now(expenses, payments) THEN stores
    ELSE LET E == {i \in DOMAIN expenses :
                     expenses[i].created_at = t /\ expenses[i].group_id = g}
             P == {i \in DOMAIN payments :
                     payments[i].paid_at = t /\ payments[i].group_id = g}
             afterE == IF E = {} THEN stores
                       ELSE LET e == expenses[CHOOSE i \in E : TRUE]
                                rows == [r \in {x \in BagToSet(expense_splits) :
                                                  /\ x.expense_id = e.expense_id
                                                  /\ x.status = "owes"}
                                          |-> expense_splits[r]]
                            IN  ReplaySplits(stores, g, e.paid_by, rows)
             afterP == IF P = {} THEN afterE
                       ELSE LET q == payments[CHOOSE i \in P : TRUE]
                            IN  UNION {consolidate_balances(b, g, q.paid_to, q.paid_by,
                                                            0 - q.amount) : b \in afterE}
         IN  Replay(afterP, g, t + 1)

\* C13: the stored history of each group, replayed through
\* consolidate_balances from an empty store in the order of its commits,
\* yields exactly the balance rows the group currently has.
C13_ReplayEquivalence ==
    \A g \in Groups : Replay({EmptyBag}, g, 1) = {GroupBalances(balances, g)}

\* the history holds two expenses and a payment, and a debt is left
C13_Witness ==
    /\ Len(expenses) = 2
    /\ Len(payments) >= 1
    /\ payments[1].paid_at < expenses[2].created_at
    /\ GroupBalances(balances, 1) # EmptyBag

\* a payment request served alone: the stores it can leave behind
ServePayment(bal, q) ==
    LET rows == DebtRows(bal, q.group_id, q.paid_by, q.paid_to)
    IN  IF rows = {} THEN {bal}
        ELSE UNION {IF r.amount <= 0 \/ ExceedsDebt(q.amount, r.amount)
                    THEN {bal}
                    ELSE consolidate_balances(bal, q.group_id, q.paid_to, q.paid_by,
                                              0 - q.amount)
                    : r \in rows}

\* a stored expense served alone
ServeExpense(bal, e) ==
    ReplaySplits({bal}, e.group_id, e.paid_by,
                 [r \in {x \in BagToSet(expense_splits) :
                           x.expense_id = e.expense_id /\ x.status = "owes"}
                   |-> expense_splits[r]])

\* the payment requests of the batch that reached the debt check, and the
\* expenses committed since the batch began
BatchPayments ==
    {c \in Conns : inflight.phase[c] = "done" /\ inflight.request[c] # NoRequest}
BatchExpenses == {i \in DOMAIN expenses : expenses[i].created_at >= inflight.since}
BatchComplete ==
    /\ \A c \in Conns : inflight.phase[c] # "checked"
    /\ \E c \in Conns : inflight.phase[c] = "done"

\* C14: when two requests have overlapped and both are answered, the store
\* is one that serving the two requests one after the other, in one of the
\* two orders, leaves behind.
C14_Serializable ==
    BatchComplete =>
      /\ (BatchPayments = Conns /\ BatchExpenses = {})
         => balances \in
              UNION {ServePayment(b, inflight.request[2])
                       : b \in ServePayment(inflight.base, inflight.request[1])}
              \cup
              UNION {ServePayment(b, inflight.request[1])
                       : b \in ServePayment(inflight.base, inflight.request[2])}
      /\ (Cardinality(BatchPayments) = 1 /\ Cardinality(BatchExpenses) = 1)
         => LET q == inflight.request[CHOOSE c \in BatchPayments : TRUE]
                e == expenses[CHOOSE i \in BatchExpenses : TRUE]
            IN  balances \in
                  UNION {ServeExpense(b, e) : b \in ServePayment(inflight.base, q)}
                  \cup
                  UNION {ServePayment(b, q) : b \in ServeExpense(inflight.base, e)}

\* the shares of the call last made, by position in the list of members
LastShares == [i \in DOMAIN last.result.shares |-> last.result.shares[i].amount_cents]
Succeeded == last.op = "compute_custom_splits" /\ last.result.ok

\* C15: when compute_custom_splits succeeds it returns one share for each
\* listed member, each share is a non-negative integer, and the shares sum to
\* the total exactly.
C15_SharesSumToTotal ==
    Succeeded =>
      /\ DOMAIN last.result.shares = DOMAIN last.members
      /\ \A i \in DOMAIN last.members :
            /\ last.result.shares[i].user_id = last.members[i].user_id
            /\ LastShares[i] \in Nat
      /\ SumOver(LastShares, DOMAIN LastShares) = last.total

\* a call has succeeded in which a percentage was rounded down and the rest
\* did not divide evenly among two Remainder members
C15_Witness ==
    /\ Succeeded
    /\ \E i, j, k \in DOMAIN last.members :
          /\ last.members[i].type = "percent" /\ last.members[i].value = 50
          /\ 2 * LastShares[i] < last.total
          /\ last.members[j].type = "none" /\ last.members[k].type = "none"
          /\ LastShares[j] # LastShares[k]

\* the same members listed in another order
Reorderings(m) ==
    {[i \in DOMAIN m |-> m[f[i]]] :
       f \in {g \in [DOMAIN m -> DOMAIN m] : \A i, j \in DOMAIN m : g[i] = g[j] => i = j}}

\* the share a result gives to a user
ShareOfUser(shares, u) == shares[CHOOSE i \in DOMAIN shares : shares[i].user_id = u].amount_cents

\* C16: in a successful call the amount left after the Fixed and Percent
\* members is divided evenly among the Remainder members, the leftover
\* remaining % count units go one each to the Remainder members with the
\* lowest ids, and listing the members in another order changes no share.
C16_RemainderByAscendingId ==
    Succeeded =>
      LET R == {i \in DOMAIN last.members : last.members[i].type = "none"}
          remaining == last.total - SumOver(LastShares, (DOMAIN last.members) \ R)
          count == Cardinality(R)
          before(i) == {j \in R : last.members[j].user_id < last.members[i].user_id}
      IN  /\ \A i \in R :
                LastShares[i] = (remaining \div count)
                                + (IF Cardinality(before(i)) < remaining % count
                                   THEN 1 ELSE 0)
          /\ \A other \in Reorderings(last.members) :
                LET again == compute_custom_splits(last.total, other)
                IN  /\ again.ok
                    /\ \A i \in DOMAIN last.members :
                          ShareOfUser(again.shares, last.members[i].user_id)
                            = LastShares[i]

\* the Remainder member listed last has the lowest id and got the extra unit
C16_Witness ==
    /\ Succeeded
    /\ \E i, j \in DOMAIN last.members :
          /\ i < j
          /\ last.members[i].type = "none" /\ last.members[j].type = "none"
          /\ last.members[j].user_id < last.members[i].user_id
          /\ LastShares[j] = LastShares[i] + 1

\* the members pass the checks that come before the remainder is looked at:
\* not empty, no member twice, no negative value, percentages within 100,
\* Fixed and Percent shares within the total
AllocationFits(total, m) ==
    LET F == {i \in DOMAIN m : m[i].type = "amount"}
        P == {i \in DOMAIN m : m[i].type = "percent"}
        value == [i \in DOMAIN m |-> m[i].value]
        floor == [i \in DOMAIN m |-> (total * m[i].value) \div 100]
    IN  /\ m # << >>
        /\ \A i, j \in DOMAIN m : m[i].user_id = m[j].user_id => i = j
        /\ \A i \in F \cup P : m[i].value >= 0
        /\ SumOver(value, P) <= 100
        /\ SumOver(value, F) + SumOver(floor, P) <= total

Unallocated(total, m) ==
    LET F == {i \in DOMAIN m : m[i].type = "amount"}
        P == {i \in DOMAIN m : m[i].type = "percent"}
    IN  total - SumOver([i \in DOMAIN m |-> m[i].value], F)
              - SumOver([i \in DOMAIN m |-> (total * m[i].value) \div 100], P)

C18_GroupBalancesProjection ==
    [][Requested("get_group_balances")
       => /\ UNCHANGED <<balances, expenses, expense_splits, payments, members>>
          /\ last'.status = 200
             => \A m \in Users :
                  IsMember(members, m, last'.group_id)
                  => /\ m \in DOMAIN last'.members
                     /\ last'.members[m].owes
                          = SumAmounts(balances,
                              {r \in BagToSet(balances) :
                                 r.group_id = last'.group_id /\ r.borrower = m})
                     /\ last'.members[m].is_owed
                          = SumAmounts(balances,
                              {r \in BagToSet(balances) :
                                 r.group_id = last'.group_id /\ r.lender = m})]_vars

\* a table read as a sequence still starts with the rows it held before
Extends(after, before) ==
    /\ Len(after) >= Len(before)
    /\ SubSeq(after, 1, Len(before)) = before

\* C19: no step of app.py or crud.py updates or deletes a stored expenses,
\* expense_splits or payments row: after every step the expenses and the
\* payments tables start with the rows they held before, in the same
\* order, and every expense_splits row is still there as often as before.
C19_AppendOnly ==
    [][/\ Extends(expenses', expenses)
       /\ Extends(payments', payments)
       /\ expense_splits \sqsubseteq expense_splits']_vars

\* a full payment has deleted the only balance row while the expense and
\* its split rows are still stored
C19_Witness ==
    /\ last.op = "record_payment"
    /\ last.status = 201
    /\ balances = EmptyBag
    /\ Len(expenses) = 1
    /\ Len(payments) = 1
    /\ expense_splits # EmptyBag

\* C20: an expense or a payment changes the balance rows of one group only:
\* the group named in the request, or, for the payment of crud.py, which
\* names no group, at most one group.
C20_GroupScoped ==
    [][last = NoResponse /\ last' # NoResponse
       => \E g \in Groups :
            /\ last'.group_id # 0 => last'.group_id = g
            /\ \A h \in Groups \ {g} :
                  GroupBalances(balances', h) = GroupBalances(balances, h)]_vars

\* C21: after calls of crud.add_expense only, every unordered pair of members
\* of the group of the last call has at most one balance row in that group.
C21_CrudSingleEdge ==
    (/\ last.op = "crud_add_expense"
     /\ last.error = ""
     /\ payments = << >>)
    => \A a \in Users : \A b \in Users :
         (/\ a # b
          /\ IsMember(members, a, last.group_id)
          /\ IsMember(members, b, last.group_id))
         => PairRowCount(balances, last.group_id, a, b) <= 1

\* C22: when crud.record_payment is called with an amount that reaches every
\* balance the payer owes the recipient, each of them positive, no row of
\* that lender and borrower is left with amount 0.
C22_CrudZeroDeleted ==
    [][(/\ Requested("crud_record_payment")
        /\ \E r \in BagToSet(balances) :
             r.lender = last'.lender /\ r.borrower = last'.borrower
        /\ \A r \in BagToSet(balances) :
             (r.lender = last'.lender /\ r.borrower = last'.borrower)
             => 0 < r.amount /\ r.amount <= last'.amount)
       => \A r \in BagToSet(balances') :
            (r.lender = last'.lender /\ r.borrower = last'.borrower)
            => r.amount # 0]_vars

\* C23: no step leaves a balance row whose lender is its borrower, and a
\* payment whose payer is its recipient is refused and changes no table,
\* through app.py as through crud.py.
C23_NoSelfObligation ==
    [][/\ \A r \in BagToSet(balances') : r.lender # r.borrower
       /\ (/\ last = NoResponse
           /\ last'.op \in {"record_payment", "crud_record_payment"}
           /\ last'.lender = last'.borrower)
          => /\ last'.error # ""
             /\ UNCHANGED <<balances, expenses, expense_splits, payments>>]_vars

\* C24: an accepted add_expense has named every participant once: it stores
\* one expense_splits row per member, and so applies at most one balance
\* delta to a participant and the payer.
C24_NoDuplicateParticipants ==
    [][Accepted("add_expense")
       => \A r \in BagToSet(NewSplits) :
            SumOver(NewSplits, {x \in BagToSet(NewSplits) : x.user_id = r.user_id}) = 1]_vars

\* C25: join_group by a user who is already a member of the group of the join
\* code is answered 409 and leaves the members table as it is, and no step
\* of create_group or join_group leaves a user with two membership rows in
\* one group.
C25_SingleMembership ==
    [][/\ (/\ Requested("join_group")
           /\ last'.group_id # 0
           /\ IsMember(members, last'.user_id, last'.group_id))
          => (last'.status = 409 /\ UNCHANGED members)
       /\ \A u \in Users : \A i \in DOMAIN groups' :
            CopiesIn(<<u, groups'[i].group_id>>, members') <= 1]_vars

\* a user who joined a created group by its code has asked to join it again
C25_Witness ==
    /\ last.op = "join_group"
    /\ last.status = 409
    /\ Len(groups) = MaxGroups
    /\ last.group_id = MaxGroups
    /\ groups[MaxGroups].created_by # last.user_id

\* C26: an amount returned by find_total_amount_in_text is the amount of a
\* line without 'subtotal', 'sub-total' and 'sub total' that either contains
\* a total keyword or follows a keyword line carrying no amount.
C26_SubtotalIgnored ==
    (last.op = "find_total_amount_in_text" /\ last.result # NoAmount)
    => LET lines == StrippedLines(last.text)
       IN  \E idx \in DOMAIN lines :
             /\ extract_amount_from_line(lines[idx]) = last.result
             /\ KeywordsIn(lines[idx].words) \cap EXCLUDE_KEYWORDS = {}
             /\ \/ KeywordsIn(lines[idx].words) \cap RECEIPT_KEYWORDS # {}
                \/ /\ idx > 1
                   /\ KeywordsIn(lines[idx - 1].words) \cap RECEIPT_KEYWORDS # {}
                   /\ extract_amount_from_line(lines[idx - 1]) = NoAmount

\* C27: on a store in which the pair has at most one row, of positive amount,
\* consolidate_balances with +d followed by consolidate_balances with -d on
\* the same group, lender and borrower leaves the store as it was, for
\* every d > 0.
C27_RoundTrip ==
    \A g \in Groups : \A lender_id \in EngineUsers : \A borrower_id \in EngineUsers :
      (/\ lender_id # borrower_id
       /\ PairRowCount(balances, g, lender_id, borrower_id) <= 1
       /\ \A r \in PairRows(balances, g, lender_id, borrower_id) : r.amount > 0)
      => \A d \in 1..MaxDelta :
           \A there \in consolidate_balances(balances, g, lender_id, borrower_id, d) :
             consolidate_balances(there, g, lender_id, borrower_id, 0 - d) = {balances}

\* C28: when two record_payment requests of one payer to one recipient in
\* one group have overlapped and both were accepted, their amounts together
\* do not exceed the debt the first of them found, and the pair is left
\* without a row of amount 0 or less and without a debt of the recipient
\* to the payer.
C28_CapUnderConcurrency ==
    LET q1 == inflight.request[1]
        q2 == inflight.request[2]
    IN  (/\ BatchComplete
         /\ BatchPayments = Conns
         /\ BatchExpenses = {}
         /\ q1.group_id = q2.group_id
         /\ q1.paid_by = q2.paid_by
         /\ q1.paid_to = q2.paid_to)
        => /\ q1.amount + q2.amount
                <= SumAmounts(inflight.base,
                              DebtRows(inflight.base, q1.group_id, q1.paid_by, q1.paid_to))
           /\ \A r \in PairRows(balances, q1.group_id, q1.paid_by, q1.paid_to) :
                r.amount > 0
           /\ SelectBalances(balances, q1.group_id, q1.paid_by, q1.paid_to) = {}

\* the stores that serving expense x and then expense y leaves behind
ServeBoth(bal, x, y) == UNION {ServeExpense(b, y) : b \in ServeExpense(bal, x)}

\* C29: two accepted expenses applied to the empty store leave the same
\* balance rows in the order in which they were served and in the other.
C29_ExpenseOrder ==
    (Len(expenses) = 2 /\ payments = << >>)
    => /\ balances \in ServeBoth(EmptyBag, expenses[1], expenses[2])
       /\ ServeBoth(EmptyBag, expenses[1], expenses[2])
            = ServeBoth(EmptyBag, expenses[2], expenses[1])

\* the shares charged to x on the expenses of group g paid by y
Charged(g, x, y) ==
    SumAmounts(expense_splits,
               {r \in BagToSet(expense_splits) :
                  /\ r.status = "owes"
                  /\ r.user_id = x
                  /\ expenses[r.expense_id].group_id = g
                  /\ expenses[r.expense_id].paid_by = y})

\* the payments of group g made by x to y
RECURSIVE Paid(_, _, _, _)
Paid(pay, g, x, y) ==
    IF pay = << >> THEN 0
    ELSE (IF Head(pay).group_id = g /\ Head(pay).paid_by = x /\ Head(pay).paid_to = y
          THEN Head(pay).amount ELSE 0)
         + Paid(Tail(pay), g, x, y)

\* C30: for every group and ordered pair (x, y), what x owes y, counted with
\* its sign, is the shares charged to x on expenses paid by y, less the
\* shares charged to y on expenses paid by x, less the payments of x to y,
\* plus the payments of y to x.
C30_Conservation ==
    \A g \in Groups : \A x \in Users : \A y \in Users :
      x # y
      => Signed(balances, g, x, y)
           = Charged(g, x, y) - Charged(g, y, x)
             - Paid(payments, g, x, y) + Paid(payments, g, y, x)

====
